---------------------------- MODULE Spec2Model ----------------------------
(***************************************************************************)
(* Model of article_nom: the HTML sanitizer (models/html_cleaner.rs), the  *)
(* extractor and folder (lib.rs), the browser session wrapper              *)
(* (models/news_scraper.rs) and the two pipeline entry points (lib.rs).    *)
(*                                                                         *)
(* Strings are sequences of one-character strings, so that the regular     *)
(* expressions of the source are matched character by character.           *)
(***************************************************************************)
EXTENDS Naturals, Sequences, FiniteSets, TLC

VARIABLES
    \* ---- HtmlCleaner (models/html_cleaner.rs)
    input,        \* the &str handed to clean
    config,       \* the CleanerConfig the caller built
    cleaner,      \* the HtmlCleaner's four fields
    clean_text,   \* the String returned by clean
    removed,      \* per pass, the positions of input that this pass deleted
    cpc,          \* "new" | "configured" | "cleaned"
    \* ---- extract_url_headline (lib.rs)
    text,         \* the &str handed to extract_url_headline
    extracted,    \* its outcome: None, Some(NewsArticle) or a panic
    xpc,          \* "call" | "done"
    \* ---- fold_articles (lib.rs)
    articles,     \* the &Vec<String> handed to fold_articles
    acc,          \* the accumulator of the stream fold
    fi,           \* number of elements already folded
    fpc,          \* "folding" | "done"
    \* ---- NewsScraper (models/news_scraper.rs)
    client,       \* "Some" | "None": NewsScraper.client
    session,      \* "open" | "closed": the WebDriver session behind the client
    ncmds,        \* number of commands issued to the browser
    ncalls,       \* number of method calls made on the scraper
    last,         \* the last call of the scraper and what it returned
    \* ---- gather_article / gather_google_articles (lib.rs)
    mode,         \* "single" (gather_article) | "multi" (gather_google_articles)
    render,       \* html2md::parse_html, a pure function of the cleaned markup
    ppc,          \* position in the pipeline
    elements,     \* Vec<String> returned by gather_article_elements
    parsed_text,  \* Vec<String> returned by clean_html
    outcome,      \* what the invocation returned to its caller
    errAt,        \* the step whose error was propagated ("none" when none)
    opened,       \* whether NewsScraper::new succeeded in this invocation
    closeCalled   \* whether scraper.close() was called in this invocation

cleanVars   == <<input, config, cleaner, clean_text, removed, cpc>>
extractVars == <<text, extracted, xpc>>
foldVars    == <<articles, acc, fi, fpc>>
scraperVars == <<client, session, ncmds, ncalls, last>>
pipeVars    == <<mode, render, ppc, elements, parsed_text, outcome, errAt,
                 opened, closeCalled>>
vars == <<cleanVars, extractVars, foldVars, scraperVars, pipeVars>>

-----------------------------------------------------------------------------
(* Bounds of the model.                                                    *)

MaxCleanChunks == 3
MaxTextChunks == 4
MaxFragments == 3
MaxCalls == 4
MaxElements == 2

-----------------------------------------------------------------------------
(* Strings.                                                                *)

Range(f) == {f[x] : x \in DOMAIN f}

RECURSIVE Concat(_)
Concat(ss) == IF ss = <<>> THEN <<>> ELSE Head(ss) \o Concat(Tail(ss))

\* All sequences of at most n elements of S.
SeqsUpTo(S, n) == UNION {[1..k -> S] : k \in 0..n}

Min(S) == CHOOSE x \in S : \A y \in S : x <= y

\* s[a..b], empty when b < a.
Slice(s, a, b) == IF b < a THEN <<>> ELSE SubSeq(s, a, b)

UpperCase ==
    <<"A","B","C","D","E","F","G","H","I","J","K","L","M",
      "N","O","P","Q","R","S","T","U","V","W","X","Y","Z">>
LowerCase ==
    <<"a","b","c","d","e","f","g","h","i","j","k","l","m",
      "n","o","p","q","r","s","t","u","v","w","x","y","z">>
UpperSet == Range(UpperCase)

\* Case folding of the (?i) flag.
Lower(c) ==
    IF c \in UpperSet
    THEN LowerCase[CHOOSE k \in 1..26 : UpperCase[k] = c]
    ELSE c

\* The class \s.
IsSpace(c) == c \in {" ", "\n", "\t", "\r"}

\* The literal lit (given in lower case) stands at position i of s, whatever
\* the case of the letters of s.
HasAtCI(s, i, lit) ==
    /\ i >= 1
    /\ i + Len(lit) - 1 <= Len(s)
    /\ \A k \in 1..Len(lit) : Lower(s[i + k - 1]) = lit[k]

\* The literal lit stands at position i of s.
HasAt(s, i, lit) ==
    /\ i >= 1
    /\ i + Len(lit) - 1 <= Len(s)
    /\ \A k \in 1..Len(lit) : s[i + k - 1] = lit[k]

\* No line feed in s[a..b]: what a dot without the s flag can run over.
NoNewline(s, a, b) == \A k \in a..b : s[k] # "\n"

-----------------------------------------------------------------------------
(* HtmlCleaner.                                                            *)

Passes == <<"script", "a", "img", "source">>

LitScriptOpen  == <<"<","s","c","r","i","p","t">>
LitScriptClose == <<"<","/","s","c","r","i","p","t",">">>
LitAOpen       == <<"<","a">>
LitAClose      == <<"<","/","a",">">>
LitImgOpen     == <<"<","i","m","g">>
LitSourceOpen  == <<"<","s","o","u","r","c","e">>

\* <script.*?</script> with the s flag and without the i flag.
ScriptCaseSensitive(s, i) ==
    IF ~HasAt(s, i, LitScriptOpen) THEN 0
    ELSE LET js == {j \in (i + 7)..Len(s) : HasAt(s, j, LitScriptClose)}
         IN  IF js = {} THEN 0 ELSE Min(js) + 8

\* (?is)<script.*?</script> anchored at i: the position of the last character
\* of the match, 0 when there is no match at i.  The lazy .*? stops at the
\* nearest closing tag; with the s flag it runs over line feeds.
ScriptMatchEnd(s, i) ==
    IF ~HasAtCI(s, i, LitScriptOpen) THEN 0
    ELSE LET js == {j \in (i + 7)..Len(s) : HasAtCI(s, j, LitScriptClose)}
         IN  IF js = {} THEN 0 ELSE Min(js) + 8

\* (?i)<name\s+[^>]*> anchored at i: the opening literal, at least one space,
\* then everything up to the first ">".
OpenTagMatchEnd(s, i, lit) ==
    LET n == Len(lit) IN
    IF ~(HasAtCI(s, i, lit) /\ i + n <= Len(s) /\ IsSpace(s[i + n])) THEN 0
    ELSE LET ks == {k \in (i + n + 1)..Len(s) : s[k] = ">"}
         IN  IF ks = {} THEN 0 ELSE Min(ks)

\* (?i)<a\s+[^>]*>|</a> anchored at i.
AMatchEnd(s, i) ==
    LET e == OpenTagMatchEnd(s, i, LitAOpen) IN
    IF e # 0 THEN e
    ELSE IF HasAtCI(s, i, LitAClose) THEN i + 3 ELSE 0

ImgMatchEnd(s, i) == OpenTagMatchEnd(s, i, LitImgOpen)

SourceMatchEnd(s, i) == OpenTagMatchEnd(s, i, LitSourceOpen)

MatchEnd(pass, s, i) ==
    CASE pass = "script" -> ScriptMatchEnd(s, i)
      [] pass = "a"      -> AMatchEnd(s, i)
      [] pass = "img"    -> ImgMatchEnd(s, i)
      [] pass = "source" -> SourceMatchEnd(s, i)

\* Regex::replace_all(s, ""): the positions of s inside a match, from i on.  The
\* matches are found left to right, each search starting after the previous
\* match.
RECURSIVE DeletedFrom(_, _, _)
DeletedFrom(pass, s, i) ==
    IF i > Len(s) THEN {}
    ELSE LET e == MatchEnd(pass, s, i) IN
         IF e # 0 THEN (i..e) \cup DeletedFrom(pass, s, e + 1)
         ELSE DeletedFrom(pass, s, i + 1)

\* The positions of s that survive replace_all, in order.
ReplaceAllKept(pass, s) ==
    LET del == DeletedFrom(pass, s, 1)
    IN  SelectSeq([k \in 1..Len(s) |-> k], LAMBDA k : k \notin del)

\* The text under cleaning is a sequence idx of positions of the input src:
\* its characters are src[idx[k]].  One pass maps it to the subsequence that
\* survives the pass.  (Appending the empty sequence leaves a sequence as it is
\* and has it built once instead of at every use.)
TextOf(src, idx) == [k \in 1..Len(idx) |-> src[idx[k]]] \o <<>>

RunPass(pass, enabled, src, idx) ==
    IF ~enabled THEN idx
    ELSE LET kept == ReplaceAllKept(pass, TextOf(src, idx))
         IN  [k \in 1..Len(kept) |-> idx[kept[k]]] \o <<>>

\* HtmlCleaner::new
HtmlCleaner_new ==
    [remove_script_tags |-> FALSE, remove_a_tags |-> FALSE,
     remove_img_tags |-> FALSE, remove_source_tags |-> FALSE]

\* apply_config with the image and source flags copied crosswise.
apply_config_swapped(self, cfg) ==
    [remove_script_tags |-> cfg.remove_script_tags,
     remove_a_tags      |-> cfg.remove_a_tags,
     remove_img_tags    |-> cfg.remove_source_tags,
     remove_source_tags |-> cfg.remove_img_tags]

\* HtmlCleaner::apply_config
apply_config(self, cfg) ==
    [remove_script_tags |-> cfg.remove_script_tags,
     remove_a_tags      |-> cfg.remove_a_tags,
     remove_img_tags    |-> cfg.remove_img_tags,
     remove_source_tags |-> cfg.remove_source_tags]

\* HtmlCleaner::clean, pass by pass: the surviving positions of src after the
\* script pass, the anchor pass, the image pass and the source pass.
CleanStages(self, src) ==
    LET i0 == [k \in 1..Len(src) |-> k]
        i1 == RunPass("script", self.remove_script_tags, src, i0)
        i2 == RunPass("a", self.remove_a_tags, src, i1)
        i3 == RunPass("img", self.remove_img_tags, src, i2)
        i4 == RunPass("source", self.remove_source_tags, src, i3)
    IN  <<i0, i1, i2, i3, i4>>

\* The String returned by HtmlCleaner::clean.
clean(self, src) == TextOf(src, CleanStages(self, src)[5])

\* The positions of the input deleted by each pass, from the stages st.
RemovedIn(st) ==
    [p \in Range(Passes) |->
        LET n == CHOOSE k \in 1..4 : Passes[k] = p
        IN  Range(st[n]) \ Range(st[n + 1])]

Bools == {TRUE, FALSE}

Configs ==
    [remove_script_tags : Bools, remove_a_tags : Bools,
     remove_img_tags : Bools, remove_source_tags : Bools]

\* The pieces the markup inputs are assembled from.
CleanChunks ==
    { <<"<","s","c","r">>,
      <<"i","p","t",">","<","/","s","c","r","i","p","t",">">>,
      <<"<","s","c","r","i","p","t",">">>,
      <<"\n","<","/","S","C","R","I","P","T",">">>,
      <<"<","i","m","g"," ","a",">">>,
      <<"<","A"," ","b",">","x","<","/","a",">">>,
      <<"<","s","o","u","r","c","e","\n","c",">">> }

CleanInputs == {Concat(cs) : cs \in SeqsUpTo(CleanChunks, MaxCleanChunks)}

NoRemoved == [p \in Range(Passes) |-> {}]

CleanInit ==
    /\ input \in CleanInputs
    /\ config \in Configs
    /\ cleaner = HtmlCleaner_new
    /\ clean_text = <<>>
    /\ removed = NoRemoved
    /\ cpc = "new"

\* HtmlCleaner::new().apply_config(&config)
ApplyConfig ==
    /\ cpc = "new"
    /\ cleaner' = apply_config(cleaner, config)
    /\ cpc' = "configured"
    /\ UNCHANGED <<input, config, clean_text, removed>>

\* html_cleaner.clean(html), on the cleaner apply_config returned
Clean ==
    /\ cpc = "configured"
    /\ LET st == CleanStages(cleaner, input) IN
         /\ clean_text' = TextOf(input, st[5])
         /\ removed' = RemovedIn(st)
    /\ cpc' = "cleaned"
    /\ UNCHANGED <<input, config, cleaner>>

-----------------------------------------------------------------------------
(* extract_url_headline.                                                   *)

NoCapture == [some |-> FALSE, v |-> <<>>]
Capture(v) == [some |-> TRUE, v |-> v]

\* \[.*?\]\((.*?)\) anchored at i: group 1 of the match, if there is one.  Both
\* lazy runs are as short as a match allows, and neither runs over a line feed.
LinkCaptureAt(s, i) ==
    IF ~(i <= Len(s) /\ s[i] = "[") THEN NoCapture
    ELSE LET closes(j) == {k \in (j + 2)..Len(s) :
                             s[k] = ")" /\ NoNewline(s, j + 2, k - 1)}
             js == {j \in (i + 1)..(Len(s) - 1) :
                      /\ s[j] = "]"
                      /\ s[j + 1] = "("
                      /\ NoNewline(s, i + 1, j - 1)
                      /\ closes(j) # {}}
         IN  IF js = {} THEN NoCapture
             ELSE LET j == Min(js)
                      k == Min(closes(j))
                  IN  Capture(Slice(s, j + 2, k - 1))

LitHeadOpen  == <<"#","#","#","#"," ">>
LitHeadClose == <<" ","#","#","#","#">>

\* #### (.*?) #### anchored at i: group 1 of the match, if there is one.
HeadlineCaptureAt(s, i) ==
    IF ~HasAt(s, i, LitHeadOpen) THEN NoCapture
    ELSE LET js == {j \in (i + 5)..Len(s) :
                      HasAt(s, j, LitHeadClose) /\ NoNewline(s, i + 5, j - 1)}
         IN  IF js = {} THEN NoCapture
             ELSE Capture(Slice(s, i + 5, Min(js) - 1))

\* Regex::captures: the leftmost match.
LinkCaptures(s) ==
    LET is == {i \in 1..Len(s) : LinkCaptureAt(s, i).some}
    IN  IF is = {} THEN NoCapture ELSE LinkCaptureAt(s, Min(is))

HeadlineCaptures(s) ==
    LET is == {i \in 1..Len(s) : HeadlineCaptureAt(s, i).some}
    IN  IF is = {} THEN NoCapture ELSE HeadlineCaptureAt(s, Min(is))

\* "https://news.google.com"
url_prefix ==
    <<"h","t","t","p","s",":","/","/","n","e","w","s",".",
      "g","o","o","g","l","e",".","c","o","m">>

OptNone   == [kind |-> "None", url |-> <<>>, headline |-> <<>>]
OptPanic  == [kind |-> "panic", url |-> <<>>, headline |-> <<>>]
OptSome(u, h) == [kind |-> "Some", url |-> u, headline |-> h]

\* extract_url_headline.  &url[1..] panics when url is empty (byte index 1 is
\* out of bounds of the string).
extract_url_headline(t) ==
    LET first_url == LinkCaptures(t)
        headline  == HeadlineCaptures(t)
    IN  IF first_url.some /\ headline.some
        THEN IF Len(first_url.v) < 1 THEN OptPanic
             ELSE OptSome(url_prefix \o Slice(first_url.v, 2, Len(first_url.v)),
                          headline.v)
        ELSE OptNone

\* The pieces the text inputs are assembled from.
TextChunks ==
    { <<"[","x","]">>,
      <<"(","/","a",")">>,
      <<"(",".","b",")">>,
      <<"(",")">>,
      <<"#","#","#","#"," ","h"," ","#","#","#","#">>,
      <<"#","#","#","#"," "," ","#","#","#","#">>,
      <<"\n">> }

TextInputs == {Concat(cs) : cs \in SeqsUpTo(TextChunks, MaxTextChunks)}

ExtractInit ==
    /\ text \in TextInputs
    /\ extracted = OptNone
    /\ xpc = "call"

\* extract_url_headline(&text).await
Extract ==
    /\ xpc = "call"
    /\ extracted' = extract_url_headline(text)
    /\ xpc' = "done"
    /\ UNCHANGED text

-----------------------------------------------------------------------------
(* fold_articles.                                                          *)

\* "\n\nNEW ARTICLE: "
Separator ==
    <<"\n","\n","N","E","W"," ","A","R","T","I","C","L","E",":"," ">>

\* The closure of the fold: one element pushed onto the accumulator.
FoldPush(a, t) == (IF a # <<>> THEN a \o Separator ELSE a) \o t

\* fold_articles as a whole.
RECURSIVE FoldFrom(_, _, _)
FoldFrom(as, a, i) ==
    IF i > Len(as) THEN a ELSE FoldFrom(as, FoldPush(a, as[i]), i + 1)

fold_articles(as) == FoldFrom(as, <<>>, 1)

FoldFragments == { <<>>, <<"a">>, <<"b">> }

FoldInit ==
    /\ articles \in SeqsUpTo(FoldFragments, MaxFragments)
    /\ acc = <<>>
    /\ fi = 0
    /\ fpc = "folding"

\* One turn of stream::iter(articles).fold(String::new(), ...).
FoldStep ==
    /\ fpc = "folding"
    /\ fi < Len(articles)
    /\ acc' = FoldPush(acc, articles[fi + 1])
    /\ fi' = fi + 1
    /\ UNCHANGED <<articles, fpc>>

\* The stream is exhausted: the accumulator is the result.
FoldDone ==
    /\ fpc = "folding"
    /\ fi = Len(articles)
    /\ fpc' = "done"
    /\ UNCHANGED <<articles, acc, fi>>

-----------------------------------------------------------------------------
(* NewsScraper.                                                            *)

\* The outer markup of the page elements the browser can hold.
ElementHtml ==
    { <<"<","i","m","g"," ","a",">","x">>, <<"x">>, <<"y">> }

\* Element::html(true): the markup, or an error.
ElemReads ==
    {[ok |-> FALSE, html |-> <<>>]} \cup [ok : {TRUE}, html : ElementHtml]

\* Client::find_all: the elements found, or an error.
FindErr == [ok |-> FALSE, items |-> <<>>]
FindResults ==
    {FindErr} \cup [ok : {TRUE}, items : SeqsUpTo(ElemReads, MaxElements)]

\* What the browser answers to the commands of one get_elements call.  The
\* answers to commands that the call never issues are left at a fixed value.
BrowserRuns ==
    {[goto |-> "err", current_url |-> "same", article |-> FindErr, body |-> FindErr]}
    \cup
    {[goto |-> "ok", current_url |-> "err", article |-> FindErr, body |-> FindErr]}
    \cup
    [goto : {"ok"}, current_url : {"same", "other"},
     article : {f \in FindResults : f.ok /\ f.items # <<>>}, body : {FindErr}]
    \cup
    [goto : {"ok"}, current_url : {"same", "other"},
     article : {FindErr, [ok |-> TRUE, items |-> <<>>]}, body : FindResults]

\* html.unwrap_or_else(|_| String::new()) over the elements, in order.
HtmlContents(items) ==
    [k \in 1..Len(items) |-> IF items[k].ok THEN items[k].html ELSE <<>>]

GetResult(ret, elems, cmds, at, warned) ==
    [ret |-> ret, elems |-> elems, cmds |-> cmds, errAt |-> at, warned |-> warned]

\* A close that gives the client up only when the session's close succeeded.
TakenKeptOnError(res) == IF res = "ok" THEN "None" ELSE "Some"

\* What self.client.take() leaves in the field, whatever Client::close answers.
Taken(res) == "None"

\* NewsScraper::get_elements on a scraper whose client field is c, the browser
\* answering b: the value returned, the number of commands issued, the step
\* whose error was returned, and whether the redirect warning was printed.
get_elements(c, b) ==
    IF c = "None" THEN GetResult("SessionDropped", <<>>, 0, "session", FALSE)
    ELSE IF b.goto = "err" THEN GetResult("CmdError", <<>>, 1, "goto", FALSE)
    ELSE IF b.current_url = "err"
         THEN GetResult("CmdError", <<>>, 2, "current_url", FALSE)
    ELSE LET warned == b.current_url # "same" IN
         IF b.article.ok /\ b.article.items # <<>>
         THEN GetResult("Ok", HtmlContents(b.article.items),
                        3 + Len(b.article.items), "none", warned)
         ELSE IF ~b.body.ok THEN GetResult("CmdError", <<>>, 4, "find", warned)
         ELSE GetResult("Ok", HtmlContents(b.body.items),
                        4 + Len(b.body.items), "none", warned)

ScraperInit ==
    /\ client = "Some"
    /\ session = "open"
    /\ ncmds = 0
    /\ ncalls = 0
    /\ last = [op |-> "new", ret |-> "Ok", elems |-> <<>>]

\* NewsScraper::close; res is what Client::close answers.
ScraperClose ==
    /\ ncalls < MaxCalls
    /\ \E res \in {"ok", "err"} :
         IF client = "Some"
         THEN /\ client' = Taken(res)
              /\ session' = IF res = "ok" THEN "closed" ELSE session
              /\ ncmds' = ncmds + 1
              /\ last' = [op |-> "close",
                          ret |-> IF res = "ok" THEN "Ok" ELSE "CmdError",
                          elems |-> <<>>]
         ELSE /\ last' = [op |-> "close", ret |-> "Ok", elems |-> <<>>]
              /\ UNCHANGED <<client, session, ncmds>>
    /\ ncalls' = ncalls + 1

\* NewsScraper::get_elements
ScraperGetElements ==
    /\ ncalls < MaxCalls
    /\ \E b \in BrowserRuns :
         LET r == get_elements(client, b) IN
         /\ ncmds' = ncmds + r.cmds
         /\ last' = [op |-> "get_elements", ret |-> r.ret, elems |-> r.elems]
    /\ ncalls' = ncalls + 1
    /\ UNCHANGED <<client, session>>

-----------------------------------------------------------------------------
(* gather_article and gather_google_articles.                              *)

\* The CleanerConfig built in gather_google_articles.
GoogleConfig ==
    [remove_script_tags |-> TRUE, remove_a_tags |-> FALSE,
     remove_img_tags |-> TRUE, remove_source_tags |-> FALSE]

\* The configurations the callers of gather_article pass.
CallerConfigs ==
    { [remove_script_tags |-> TRUE, remove_a_tags |-> TRUE,
       remove_img_tags |-> TRUE, remove_source_tags |-> TRUE],
      [remove_script_tags |-> FALSE, remove_a_tags |-> FALSE,
       remove_img_tags |-> FALSE, remove_source_tags |-> FALSE] }

\* The cleaned markup parse_html can be handed.
RenderDomain ==
    {clean(apply_config(HtmlCleaner_new, c), h) :
        c \in CallerConfigs \cup {GoogleConfig}, h \in ElementHtml \cup {<<>>}}

\* The texts parse_html can answer with.
RenderTexts ==
    { <<"[","x","]","(","/","a",")","#","#","#","#"," ","h"," ","#","#","#","#">>,
      <<"[","x","]","(",".","b",")","#","#","#","#"," ","h"," ","#","#","#","#">>,
      <<"[","x","]","(",")","#","#","#","#"," ","h"," ","#","#","#","#">>,
      <<>> }

\* clean_html: filter_map over the elements, every element mapped to Some.
clean_html(elems, cfg, to_markdown, rnd) ==
    [k \in 1..Len(elems) |->
        LET html_cleaner == apply_config(HtmlCleaner_new, cfg)
            cleaned == clean(html_cleaner, elems[k])
        IN  IF to_markdown THEN rnd[cleaned] ELSE cleaned]

\* The collect loop of gather_google_articles from element i on: the articles
\* pushed, or a panic of extract_url_headline.
RECURSIVE CollectFrom(_, _, _)
CollectFrom(texts, i, got) ==
    IF i > Len(texts) THEN [panicked |-> FALSE, articles |-> got]
    ELSE LET a == extract_url_headline(texts[i]) IN
         IF a.kind = "panic" THEN [panicked |-> TRUE, articles |-> <<>>]
         ELSE IF a.kind = "Some" THEN CollectFrom(texts, i + 1, Append(got, a))
         ELSE CollectFrom(texts, i + 1, got)

Pending == [kind |-> "pending", err |-> "none", document |-> <<>>, articles |-> <<>>]
RetErr(e) == [kind |-> "Err", err |-> e, document |-> <<>>, articles |-> <<>>]
RetDocument(d) == [kind |-> "Ok", err |-> "none", document |-> d, articles |-> <<>>]
RetArticles(a) == [kind |-> "Ok", err |-> "none", document |-> <<>>, articles |-> a]
Panicked == [kind |-> "panic", err |-> "none", document |-> <<>>, articles |-> <<>>]

PipeInit ==
    /\ mode \in {"single", "multi"}
    /\ config \in (IF mode = "single" THEN CallerConfigs ELSE {GoogleConfig})
    /\ render \in [RenderDomain -> RenderTexts]
    /\ ppc = "new"
    /\ elements = <<>>
    /\ parsed_text = <<>>
    /\ outcome = Pending
    /\ errAt = "none"
    /\ opened = FALSE
    /\ closeCalled = FALSE
    /\ client = "None"
    /\ session = "closed"
    /\ ncmds = 0

\* gather_article_elements: NewsScraper::new().await?
GatherNew ==
    /\ ppc = "new"
    /\ \E res \in {"ok", "err"} :
         IF res = "ok"
         THEN /\ client' = "Some"
              /\ session' = "open"
              /\ opened' = TRUE
              /\ ppc' = "get"
              /\ UNCHANGED <<outcome, errAt>>
         ELSE /\ outcome' = RetErr("NewSessionError")
              /\ errAt' = "new"
              /\ ppc' = "done"
              /\ UNCHANGED <<client, session, opened>>
    /\ UNCHANGED <<mode, config, render, elements, parsed_text, closeCalled, ncmds>>

\* gather_article_elements: scraper.get_elements(&url).await?  On an error the
\* function returns here and the scraper is dropped.
GatherGetElements ==
    /\ ppc = "get"
    /\ \E b \in BrowserRuns :
         LET r == get_elements(client, b) IN
         /\ ncmds' = ncmds + r.cmds
         /\ IF r.ret = "Ok"
            THEN /\ elements' = r.elems
                 /\ ppc' = "close"
                 /\ UNCHANGED <<outcome, errAt>>
            ELSE /\ outcome' = RetErr(r.ret)
                 /\ errAt' = r.errAt
                 /\ ppc' = "done"
                 /\ UNCHANGED elements
    /\ UNCHANGED <<mode, config, render, parsed_text, opened, closeCalled,
                   client, session>>

\* gather_article_elements: let _ = scraper.close().await;
GatherClose ==
    /\ ppc = "close"
    /\ \E res \in {"ok", "err"} :
         /\ client' = Taken(res)
         /\ session' = IF res = "ok" THEN "closed" ELSE session
    /\ ncmds' = ncmds + 1
    /\ closeCalled' = TRUE
    /\ ppc' = "clean"
    /\ UNCHANGED <<mode, config, render, elements, parsed_text, outcome, errAt,
                   opened>>

\* clean_html(&elements, &config, true).await
GatherCleanHtml ==
    /\ ppc = "clean"
    /\ parsed_text' = clean_html(elements, config, TRUE, render)
    /\ ppc' = IF mode = "single" THEN "fold" ELSE "extract"
    /\ UNCHANGED <<mode, config, render, elements, outcome, errAt, opened,
                   closeCalled, client, session, ncmds>>

\* gather_article: fold_articles(&parsed_text).await, Ok(folded_text)
GatherFold ==
    /\ ppc = "fold"
    /\ outcome' = RetDocument(fold_articles(parsed_text))
    /\ ppc' = "done"
    /\ UNCHANGED <<mode, config, render, elements, parsed_text, errAt, opened,
                   closeCalled, client, session, ncmds>>

\* gather_google_articles: the for loop over parsed_text, Ok(articles)
GatherExtract ==
    /\ ppc = "extract"
    /\ LET c == CollectFrom(parsed_text, 1, <<>>) IN
       outcome' = IF c.panicked THEN Panicked ELSE RetArticles(c.articles)
    /\ ppc' = "done"
    /\ UNCHANGED <<mode, config, render, elements, parsed_text, errAt, opened,
                   closeCalled, client, session, ncmds>>

-----------------------------------------------------------------------------
(* Specifications.  Each one runs one part of the program; the variables   *)
(* of the other parts rest at a fixed value.                               *)

CleanIdle ==
    /\ input = <<>> /\ cleaner = HtmlCleaner_new /\ clean_text = <<>>
    /\ removed = NoRemoved /\ cpc = "idle"
ExtractIdle == text = <<>> /\ extracted = OptNone /\ xpc = "idle"
FoldIdle == articles = <<>> /\ acc = <<>> /\ fi = 0 /\ fpc = "idle"
ScraperIdle == ncalls = 0 /\ last = [op |-> "none", ret |-> "none", elems |-> <<>>]
PipeIdle ==
    /\ mode = "none" /\ render = <<>> /\ ppc = "idle" /\ elements = <<>>
    /\ parsed_text = <<>> /\ outcome = Pending /\ errAt = "none"
    /\ opened = FALSE /\ closeCalled = FALSE

InitClean ==
    CleanInit /\ ExtractIdle /\ FoldIdle /\ ScraperIdle /\ PipeIdle
    /\ client = "None" /\ session = "closed" /\ ncmds = 0
NextClean ==
    \/ ApplyConfig /\ UNCHANGED <<extractVars, foldVars, scraperVars, pipeVars>>
    \/ Clean /\ UNCHANGED <<extractVars, foldVars, scraperVars, pipeVars>>
SpecClean == InitClean /\ [][NextClean]_vars

InitExtract ==
    ExtractInit /\ CleanIdle /\ FoldIdle /\ ScraperIdle /\ PipeIdle
    /\ config = GoogleConfig /\ client = "None" /\ session = "closed" /\ ncmds = 0
NextExtract ==
    Extract /\ UNCHANGED <<cleanVars, foldVars, scraperVars, pipeVars>>
SpecExtract == InitExtract /\ [][NextExtract]_vars

InitFold ==
    FoldInit /\ CleanIdle /\ ExtractIdle /\ ScraperIdle /\ PipeIdle
    /\ config = GoogleConfig /\ client = "None" /\ session = "closed" /\ ncmds = 0
NextFold ==
    \/ FoldStep /\ UNCHANGED <<cleanVars, extractVars, scraperVars, pipeVars>>
    \/ FoldDone /\ UNCHANGED <<cleanVars, extractVars, scraperVars, pipeVars>>
SpecFold == InitFold /\ [][NextFold]_vars

InitScraper ==
    ScraperInit /\ CleanIdle /\ ExtractIdle /\ FoldIdle /\ PipeIdle
    /\ config = GoogleConfig
NextScraper ==
    \/ ScraperClose /\ UNCHANGED <<cleanVars, extractVars, foldVars, pipeVars>>
    \/ ScraperGetElements /\ UNCHANGED <<cleanVars, extractVars, foldVars, pipeVars>>
SpecScraper == InitScraper /\ [][NextScraper]_vars

PipeFrame ==
    UNCHANGED <<input, cleaner, clean_text, removed, cpc, extractVars, foldVars,
                ncalls, last>>
InitPipe ==
    PipeInit /\ CleanIdle /\ ExtractIdle /\ FoldIdle /\ ScraperIdle
NextPipe ==
    \/ GatherNew /\ PipeFrame
    \/ GatherGetElements /\ PipeFrame
    \/ GatherClose /\ PipeFrame
    \/ GatherCleanHtml /\ PipeFrame
    \/ GatherFold /\ PipeFrame
    \/ GatherExtract /\ PipeFrame
SpecPipe == InitPipe /\ [][NextPipe]_vars

Init == InitScraper
Next == NextScraper
Spec == SpecScraper

-----------------------------------------------------------------------------
(* Properties.                                                             *)

\* The fragments joined with the separator between consecutive ones.
Joined(as) ==
    IF as = <<>> THEN <<>>
    ELSE as[1] \o Concat([k \in 1..(Len(as) - 1) |-> Separator \o as[k + 1]])

\* C1: fold_articles returns its fragments in order with the separator exactly
\* once between every two consecutive fragments, whatever the fragments are
\* (empty ones included).
C1_FoldIsJoin == fpc = "done" => acc = Joined(articles)

\* C2: extract_url_headline returns a record or no record for every text; it
\* never aborts.
C2_ExtractNeverAborts == xpc = "done" => extracted.kind # "panic"

\* The links [any-text](target) of s: where the link starts, where its "]("
\* stands and where its ")" stands.
Links(s) ==
    {l \in (1..Len(s)) \X (1..Len(s)) \X (1..Len(s)) :
        /\ l[1] < l[2] /\ l[2] + 1 < l[3]
        /\ s[l[1]] = "[" /\ s[l[2]] = "]" /\ s[l[2] + 1] = "(" /\ s[l[3]] = ")"
        /\ NoNewline(s, l[1] + 1, l[2] - 1)
        /\ NoNewline(s, l[2] + 2, l[3] - 1)}

\* The headings #### headline #### of s: where the opening marker starts and
\* where the closing marker starts.
Headings(s) ==
    {h \in (1..Len(s)) \X (1..Len(s)) :
        /\ h[1] + 5 <= h[2]
        /\ HasAt(s, h[1], LitHeadOpen) /\ HasAt(s, h[2], LitHeadClose)
        /\ NoNewline(s, h[1] + 5, h[2] - 1)}

\* The first of a set of tuples of positions, in lexicographic order.
Before(a, b) ==
    \E n \in 1..Len(a) : a[n] < b[n] /\ \A m \in 1..(n - 1) : a[m] = b[m]
First(S) == CHOOSE a \in S : \A b \in S \ {a} : Before(a, b)

FirstLinkTarget(s) ==
    LET l == First(Links(s)) IN Slice(s, l[2] + 2, l[3] - 1)
FirstHeadline(s) ==
    LET h == First(Headings(s)) IN Slice(s, h[1] + 5, h[2] - 1)

\* C3: a record is returned exactly when the text holds both a link and a
\* heading; its url is the base origin followed by the first link's target
\* without its first character, its headline the first heading's text.
C3_RecordIffLinkAndHeading ==
    xpc = "done" =>
        /\ extracted.kind = "Some" <=> (Links(text) # {} /\ Headings(text) # {})
        /\ extracted.kind = "Some" =>
             /\ extracted.url =
                  url_prefix \o Slice(FirstLinkTarget(text), 2,
                                      Len(FirstLinkTarget(text)))
             /\ extracted.headline = FirstHeadline(text)

\* C4: every NewsArticle emitted has a non-empty url and a non-empty headline.
C4_FieldsNonEmpty ==
    (xpc = "done" /\ extracted.kind = "Some") =>
        (extracted.url # <<>> /\ extracted.headline # <<>>)

\* The converted text of each fetched fragment, at the fragment's position.
ConvertedTexts ==
    [k \in 1..Len(elements) |->
        render[clean(apply_config(HtmlCleaner_new, GoogleConfig), elements[k])]]

HoldsPair(t) == Links(t) # {} /\ Headings(t) # {}

\* The articles of the fragments that hold a link and a heading, in the order
\* of the fragments.
ArticlesInOrder ==
    LET valid == SelectSeq(ConvertedTexts, HoldsPair)
    IN  [k \in 1..Len(valid) |->
           OptSome(url_prefix \o Slice(FirstLinkTarget(valid[k]), 2,
                                       Len(FirstLinkTarget(valid[k]))),
                   FirstHeadline(valid[k]))]

\* C5: in multi-article mode, a fetch of N fragments of which M hold a link and
\* a heading returns exactly M articles, in the order of their fragments.
C5_ExactlyMInOrder ==
    (ppc = "done" /\ mode = "multi" /\ errAt = "none") =>
        /\ outcome.kind = "Ok"
        /\ Len(outcome.articles) = Len(SelectSeq(ConvertedTexts, HoldsPair))
        /\ outcome.articles = ArticlesInOrder

\* A script block of s starts at i: an opening "<script" that a "</script>"
\* follows; the block ends with the nearest one.
ScriptBlockAt(s, i) ==
    /\ HasAtCI(s, i, LitScriptOpen)
    /\ \E j \in (i + 7)..Len(s) : HasAtCI(s, j, LitScriptClose)
ScriptBlockEnd(s, i) ==
    8 + Min({j \in (i + 7)..Len(s) : HasAtCI(s, j, LitScriptClose)})
HasScriptBlock(s) == \E i \in 1..Len(s) : ScriptBlockAt(s, i)

\* C6 as stated: with script removal enabled the returned string holds no
\* script block.
C6_NoScriptBlockLeft ==
    (cpc = "cleaned" /\ config.remove_script_tags) => ~HasScriptBlock(clean_text)

\* C6: with script removal enabled, every script block of the input, from an
\* opening "<script" to the nearest following "</script>" in any letter case,
\* is deleted by the script pass, tags and content, line feeds included.
C6_InputScriptBlocksRemoved ==
    (cpc = "cleaned" /\ config.remove_script_tags) =>
        \A i \in 1..Len(input) :
            ScriptBlockAt(input, i) =>
                (i..ScriptBlockEnd(input, i)) \subseteq removed["script"]

\* All four flags set, a script block that spans a line feed was in the input
\* and the script pass has deleted it.
C6_Witness ==
    /\ cpc = "cleaned"
    /\ config.remove_script_tags /\ config.remove_a_tags
    /\ config.remove_img_tags /\ config.remove_source_tags
    /\ \E i \in 1..Len(input) :
         /\ ScriptBlockAt(input, i)
         /\ \E k \in i..ScriptBlockEnd(input, i) : input[k] = "\n"
         /\ (i..ScriptBlockEnd(input, i)) \subseteq removed["script"]
    /\ clean_text # <<>>

Flag(cfg, pass) ==
    CASE pass = "script" -> cfg.remove_script_tags
      [] pass = "a"      -> cfg.remove_a_tags
      [] pass = "img"    -> cfg.remove_img_tags
      [] pass = "source" -> cfg.remove_source_tags

AllDisabled(cfg) == \A p \in Range(Passes) : ~Flag(cfg, p)

\* The number of tags of a category in s.
RECURSIVE TagsFrom(_, _, _)
TagsFrom(pass, s, i) ==
    IF i > Len(s) THEN 0
    ELSE LET e == MatchEnd(pass, s, i) IN
         IF e # 0 THEN 1 + TagsFrom(pass, s, e + 1) ELSE TagsFrom(pass, s, i + 1)

\* C7 as stated: the tags of a category whose flag is disabled are all in the
\* output, whatever the other flags; with every flag disabled the output is the
\* input.
C7_DisabledTagsSurvive ==
    cpc = "cleaned" =>
        /\ \A p \in Range(Passes) :
             ~Flag(config, p) =>
                 TagsFrom(p, clean_text, 1) >= TagsFrom(p, input, 1)
        /\ AllDisabled(config) => clean_text = input

\* The positions of the input deleted by the passes that the policy enables,
\* and by any pass.
DeletedByEnabled ==
    UNION {removed[p] : p \in {q \in Range(Passes) : Flag(config, q)}}
DeletedAtAll == UNION {removed[p] : p \in Range(Passes)}

Occurs(s, t) == \E k \in 1..(Len(s) + 1) : HasAt(s, k, t)

\* C7: a tag of a category whose flag is disabled is in the output unless some
\* of its characters lie in a match that an enabled pass deleted; with every
\* flag disabled the output is the input.
C7_DisabledTagsSurviveOutsideDeletions ==
    cpc = "cleaned" =>
        /\ \A p \in Range(Passes) : \A i \in 1..Len(input) :
             LET e == MatchEnd(p, input, i) IN
             (~Flag(config, p) /\ e # 0 /\ (i..e) \cap DeletedByEnabled = {}) =>
                 /\ (i..e) \cap DeletedAtAll = {}
                 /\ Occurs(clean_text, Slice(input, i, e))
        /\ AllDisabled(config) => clean_text = input

\* Image removal disabled and script removal enabled; a script block was
\* deleted and an image tag outside it is still there.
C7_Witness ==
    /\ cpc = "cleaned"
    /\ ~config.remove_img_tags /\ config.remove_script_tags
    /\ removed["script"] # {}
    /\ \E i \in 1..Len(input) :
         /\ ImgMatchEnd(input, i) # 0
         /\ (i..ImgMatchEnd(input, i)) \cap DeletedAtAll = {}
    /\ Occurs(clean_text, <<"<","i","m","g"," ","a",">">>)

\* One step of the scraper, as a call: ncalls counts the calls.
Called(op) == ncalls' # ncalls /\ last'.op = op

\* C8: once close has been called the session is Closed, whatever the close of
\* the underlying session answered, and it stays Closed; get_elements in the
\* Closed state fails with SessionDropped, issues no command and returns no
\* fragment; close in the Closed state returns Ok and changes nothing.
C8_ClosedStaysClosed ==
    [][ /\ client = "None" => client' = "None"
        /\ Called("close") => client' = "None"
        /\ (client = "None" /\ Called("get_elements")) =>
             /\ last'.ret = "SessionDropped"
             /\ last'.elems = <<>>
             /\ ncmds' = ncmds
        /\ (client = "None" /\ Called("close")) =>
             /\ last'.ret = "Ok"
             /\ ncmds' = ncmds
             /\ session' = session
      ]_vars

\* The session was closed by a close whose underlying close failed, and a later
\* get_elements was refused.
C8_Witness ==
    /\ client = "None"
    /\ session = "open"
    /\ last.op = "get_elements"
    /\ last.ret = "SessionDropped"

\* C9: the current_url step is never the cause of an error returned to the
\* caller.
C9_CurrentUrlNeverFatal == errAt # "current_url"

\* C10: an invocation that opened a session has closed it when it returns.
C10_SessionClosedAtReturn ==
    (ppc = "done" /\ opened) => (closeCalled /\ client = "None")

=============================================================================
